---- MODULE Spec2Model ----
(***************************************************************************)
(* A model of the class file decoder of java-classfile (src/src/lib.rs,    *)
(* utils.rs, constant_pool.rs, classfile.rs, attributes.rs).               *)
(*                                                                         *)
(* One behaviour is one call decode(bytes).  The input, the byte order of  *)
(* the host and the way the build treats a misaligned load are chosen in   *)
(* Init; every action is one step of decode: a header field, the prologue  *)
(* or one iteration of a loop, or the return of a callee.                  *)
(*                                                                         *)
(* Representation.  A slice &[u8] is a record [at, len]: the offset of its *)
(* first byte in the input and its length.  A u16 is a natural number.  A  *)
(* 32 or 64 bit value (u32, i32, i64, and the bits of f32, f64) is a Word: *)
(* the sequence of its bytes, most significant first, so that no value     *)
(* outgrows the integers of the model checker.  A signed value is given by *)
(* its two's complement word, a float by its bit pattern.                  *)
(***************************************************************************)
EXTENDS Integers, Sequences, FiniteSets, TLC

VARIABLES
    bytes,        \* the input of decode, a sequence of bytes
    host,         \* byte order of the host: "little" or "big"
    strict,       \* TRUE when the build traps a misaligned pointer dereference
    base,         \* address of bytes[1], modulo the largest alignment
    pc,           \* position of decode
    outcome,      \* "running", "returned", "panicked", "trapped", "ub"
    panic_msg,    \* message of the panic or trap that ended decode
    buffer,       \* the slice not yet consumed (rest / buffer in the code)
    cf,           \* the fields of the JavaClassFile decoded so far
    count,        \* the count read by the loop under way
    i,            \* decode_constant_pool: the running index
    constants,    \* decode_constant_pool: the vector under construction
    owner,        \* decode_attributes: its caller, "field", "method" or "class"
    member,       \* decode_fields / decode_methods: the member under construction
    left,         \* iterations left of the member or interface loop
    attrs_left,   \* decode_attributes: iterations left
    attributes,   \* decode_attributes: the dictionary under construction
    reads,        \* history: every primitive read made so far
    attr_log,     \* history: every attribute whose name index was read; done
                  \* when its iteration completed
    first,        \* history: how an earlier call of decode ended, when this
                  \* call is the second of a pair
    tested        \* the latest call of AccessFlag::test: receiver, argument
                  \* and result

vars == <<bytes, host, strict, base, pc, outcome, panic_msg, buffer, cf, count,
          i, constants, owner, member, left, attrs_left, attributes, reads,
          attr_log, first, tested>>

Byte == 0..255

----------------------------------------------------------------------------
(* Sequences *)

Last(s) == s[Len(s)]

Min(a, b) == IF a < b THEN a ELSE b

----------------------------------------------------------------------------
(* utils.rs: the primitive reads *)

\* A word as a natural number (used for words of at most 3 bytes).
RECURSIVE WordToNat(_)
WordToNat(w) == IF w = <<>> THEN 0 ELSE WordToNat(SubSeq(w, 1, Len(w) - 1)) * 256 + Last(w)

\* *(ptr as *const T): the w bytes at offset at, in the byte order of the host.
NativeLoad(at, w) ==
    [k \in 1..w |-> IF host = "little" THEN bytes[at + w - k + 1] ELSE bytes[at + k]]

\* {integer}::swap_bytes
swap_bytes(x) == [k \in 1..Len(x) |-> x[Len(x) - k + 1]]

\* {integer}::to_le: the identity on a little-endian host, swap_bytes on a
\* big-endian one.
to_le(x) == IF host = "little" THEN x ELSE swap_bytes(x)

\* f32::to_bits, f64::to_bits and from_bits: a float is held as its bit pattern.
to_bits(x) == x
from_bits(x) == x

read_u16(head) == WordToNat(to_le(NativeLoad(head.at, 2)))
read_u32(head) == to_le(NativeLoad(head.at, 4))
read_i32(head) == to_le(NativeLoad(head.at, 4))
read_f32(head) == from_bits(swap_bytes(to_bits(NativeLoad(head.at, 4))))
read_i64(head) == to_le(NativeLoad(head.at, 8))
read_f64(head) == from_bits(swap_bytes(to_bits(NativeLoad(head.at, 8))))
\* from_utf8_unchecked: the bytes of the slice, unchanged and unvalidated.
read_str(head) == [k \in 1..head.len |-> bytes[head.at + k]]

\* The number of bytes a read interprets: size_of of the type it loads.
Width(rd, head) ==
    CASE rd = "u16" -> 2
      [] rd \in {"u32", "i32", "f32"} -> 4
      [] rd \in {"i64", "f64"} -> 8
      [] rd \in {"u8", "tag"} -> 1
      [] rd = "str" -> head.len

Read(rd, head) ==
    CASE rd = "u16" -> read_u16(head)
      [] rd = "u32" -> read_u32(head)
      [] rd = "i32" -> read_i32(head)
      [] rd = "f32" -> read_f32(head)
      [] rd = "i64" -> read_i64(head)
      [] rd = "f64" -> read_f64(head)
      [] rd \in {"u8", "tag"} -> bytes[head.at + 1]
      [] rd = "str" -> read_str(head)

\* A load through a pointer cast of a byte pointer is undefined behaviour when
\* the address is not a multiple of the type's alignment; builds either carry
\* the load out or trap.  u8 and str have alignment 1.
Misaligned(rd, head) ==
    /\ rd \notin {"u8", "tag", "str"}
    /\ (base + head.at) % Width(rd, head) # 0

----------------------------------------------------------------------------
(* slices *)

\* A variant of split_at that clamps mid to the length instead of panicking.
split_at_clamped(buf, mid) ==
    [ok   |-> TRUE,
     head |-> [at |-> buf.at, len |-> Min(mid, buf.len)],
     rest |-> [at |-> buf.at + Min(mid, buf.len), len |-> buf.len - Min(mid, buf.len)]]

\* A variant of split_at whose remainder is the slice it was given: the head
\* is read and the cursor is left where it was.
split_at_rest_unmoved(buf, mid) ==
    [ok   |-> mid <= buf.len,
     head |-> [at |-> buf.at, len |-> mid],
     rest |-> buf]

\* <[u8]>::split_at(mid): panics when mid > len.
split_at(buf, mid) ==
    [ok   |-> mid <= buf.len,
     head |-> [at |-> buf.at, len |-> mid],
     rest |-> [at |-> buf.at + mid, len |-> buf.len - mid]]

\* The state of a chain of reads inside one step: st is "ok" until a read
\* panics or traps; vals are the values read; log the reads made, each with
\* the offset it read at, the bytes it interprets, the length of the slice it
\* was given, the read ("tag" is head[0] of the constant pool loop, "u8" any
\* other head[0]) and, when the load was carried out, its value.
Cur(buf) == [st |-> "ok", msg |-> "", buf |-> buf, vals |-> <<>>, log |-> <<>>]

\* let (head, rest) = buffer.split_at(mid); let v = read_X(head);
Fetch(c, mid, rd) ==
    IF c.st # "ok" THEN c
    ELSE LET s == split_at(c.buf, mid) IN
         IF ~s.ok THEN [c EXCEPT !.st = "panicked", !.msg = "mid > len"]
         ELSE LET w   == Width(rd, s.head)
                  rec == [at |-> s.head.at, width |-> w, span |-> s.head.len,
                          rd |-> rd, ok |-> FALSE, val |-> <<>>]
              IN
              IF rd \in {"u8", "tag"} /\ s.head.len < 1
              THEN [c EXCEPT !.st = "panicked", !.msg = "index out of bounds"]
              ELSE IF s.head.len < w \/ s.head.at + w > Len(bytes)
              THEN [c EXCEPT !.st = "ub", !.msg = "out-of-bounds read",
                             !.log = Append(@, rec)]
              ELSE IF strict /\ Misaligned(rd, s.head)
              THEN [c EXCEPT !.st = "trapped", !.msg = "misaligned pointer dereference",
                             !.log = Append(@, rec)]
              ELSE LET v == Read(rd, s.head) IN
                   [c EXCEPT !.buf = s.rest, !.vals = Append(@, v),
                             !.log = Append(@, [rec EXCEPT !.ok = TRUE, !.val = v])]

\* A panic raised by the code itself.
Panic(c, msg) == IF c.st # "ok" THEN c ELSE [c EXCEPT !.st = "panicked", !.msg = msg]

\* The effect of a chain of reads on the cursor and on the outcome of decode.
Advance(c) ==
    /\ reads' = reads \o c.log
    /\ buffer' = IF c.st = "ok" THEN c.buf ELSE buffer
    /\ outcome' = IF c.st = "ok" THEN outcome ELSE c.st
    /\ panic_msg' = IF c.st = "ok" THEN panic_msg ELSE c.msg

----------------------------------------------------------------------------
(* constant_pool.rs *)

\* A ConstantPoolInfo: its variant, the indices it holds (as usize) and its
\* payload (the word of a number, the bytes of a text, the reference kind).
Info(tag, idx, data) == [tag |-> tag, idx |-> idx, data |-> data]

Dummy == Info("Dummy", <<>>, <<>>)

\* impl From<u8> for ConstantKind; "Unknown" stands for the panicking arm.
ConstantKind_from(value) ==
    CASE value = 1 -> "Utf8"
      [] value = 3 -> "Integer"
      [] value = 4 -> "Float"
      [] value = 5 -> "Long"
      [] value = 6 -> "Double"
      [] value = 7 -> "Class"
      [] value = 8 -> "String"
      [] value = 9 -> "FieldRef"
      [] value = 10 -> "MethodRef"
      [] value = 11 -> "InterfaceMethodRef"
      [] value = 12 -> "NameAndType"
      [] value = 15 -> "MethodHandle"
      [] value = 16 -> "MethodType"
      [] value = 17 -> "Dynamic"
      [] value = 18 -> "InvokeDynamic"
      [] value = 19 -> "Module"
      [] value = 20 -> "Package"
      [] OTHER -> "Unknown"

\* The entry a decoder returns once its reads succeeded: the cursor with the
\* entry as its only value.
Emit(r, tag, idx, data) ==
    IF r.st = "ok" THEN [r EXCEPT !.vals = <<Info(tag, idx, data)>>] ELSE r

\* A decoder starts from the cursor it is given, with no value read yet.
Sub(c) == [c EXCEPT !.vals = <<>>]

decode_one_index(c, tag) ==
    LET r == Fetch(Sub(c), 2, "u16") IN Emit(r, tag, <<r.vals[1]>>, <<>>)

decode_two_indices(c, tag) ==
    LET r == Fetch(Fetch(Sub(c), 2, "u16"), 2, "u16")
    IN Emit(r, tag, <<r.vals[1], r.vals[2]>>, <<>>)

decode_class_info(c) == decode_one_index(c, "Class")
decode_field_ref_info(c) == decode_two_indices(c, "FieldRef")
decode_method_ref_info(c) == decode_two_indices(c, "MethodRef")
decode_interface_method_ref_info(c) == decode_two_indices(c, "InterfaceMethodRef")
decode_string_info(c) == decode_one_index(c, "String")

decode_integer_info(c) ==
    LET r == Fetch(Sub(c), 4, "i32") IN Emit(r, "Integer", <<>>, r.vals[1])

decode_float_info(c) ==
    LET r == Fetch(Sub(c), 4, "f32") IN Emit(r, "Float", <<>>, r.vals[1])

decode_long_info(c) ==
    LET r == Fetch(Sub(c), 8, "i64") IN Emit(r, "Long", <<>>, r.vals[1])

decode_double_info(c) ==
    LET r == Fetch(Sub(c), 8, "f64") IN Emit(r, "Double", <<>>, r.vals[1])

decode_name_and_type_info(c) == decode_two_indices(c, "NameAndType")

decode_utf8_info(c) ==
    LET l == Fetch(Sub(c), 2, "u16")
        r == IF l.st = "ok" THEN Fetch(l, l.vals[1], "str") ELSE l
    IN Emit(r, "Utf8", <<>>, r.vals[2])

\* A variant of decode_method_handle_info that takes the reference kind for a
\* 16-bit field.
decode_method_handle_info_wide(c) ==
    LET r == Fetch(Fetch(Sub(c), 2, "u16"), 2, "u16")
    IN Emit(r, "MethodHandle", <<r.vals[2]>>, <<r.vals[1] % 256>>)

decode_method_handle_info(c) ==
    LET r == Fetch(Fetch(Sub(c), 1, "u8"), 2, "u16")
    IN Emit(r, "MethodHandle", <<r.vals[2]>>, <<r.vals[1]>>)

decode_method_type_info(c) == decode_one_index(c, "MethodType")
decode_dynamic_info(c) == decode_two_indices(c, "Dynamic")
decode_invoke_dynamic_info(c) == decode_two_indices(c, "InvokeDynamic")
decode_module_info(c) == decode_one_index(c, "Module")
decode_package_info(c) == decode_one_index(c, "Package")

\* match tag { ... }: the decoder of each kind.
decode_info(tag, c) ==
    CASE tag = "Class" -> decode_class_info(c)
      [] tag = "FieldRef" -> decode_field_ref_info(c)
      [] tag = "MethodRef" -> decode_method_ref_info(c)
      [] tag = "InterfaceMethodRef" -> decode_interface_method_ref_info(c)
      [] tag = "String" -> decode_string_info(c)
      [] tag = "Integer" -> decode_integer_info(c)
      [] tag = "Float" -> decode_float_info(c)
      [] tag = "Long" -> decode_long_info(c)
      [] tag = "Double" -> decode_double_info(c)
      [] tag = "NameAndType" -> decode_name_and_type_info(c)
      [] tag = "Utf8" -> decode_utf8_info(c)
      [] tag = "MethodHandle" -> decode_method_handle_info(c)
      [] tag = "MethodType" -> decode_method_type_info(c)
      [] tag = "Dynamic" -> decode_dynamic_info(c)
      [] tag = "InvokeDynamic" -> decode_invoke_dynamic_info(c)
      [] tag = "Module" -> decode_module_info(c)
      [] tag = "Package" -> decode_package_info(c)

\* One iteration up to the end of the match: the tag byte, ConstantKind::from,
\* the decoder of the kind.
decode_entry(buf) ==
    LET t == Fetch(Cur(buf), 1, "tag") IN
    IF t.st # "ok" THEN t
    ELSE LET tag == ConstantKind_from(t.vals[1]) IN
         IF tag = "Unknown" THEN Panic(t, "Unknown ConstantKind value")
         ELSE decode_info(tag, t)

\* What the arm of the match pushes: the entry, and a Dummy after a Long or a
\* Double.
pushed_no_dummy(info) == <<info>>

pushed(info) ==
    IF info.tag \in {"Long", "Double"} THEN <<info, Dummy>> ELSE <<info>>

\* By how much one iteration advances i: the arm's i += 1 for a Long or a
\* Double, and the i += 1 that ends every iteration.
index_step_always_one(info) == 1

\* A variant in which no arm and no iteration ends with i += 1.
index_step_none(info) == 0

index_step(info) == IF info.tag \in {"Long", "Double"} THEN 2 ELSE 1

\* Vec::with_capacity(count) and the push of the Dummy of index 0.
initial_constants_empty == <<>>

initial_constants == <<Dummy>>

\* decode_constant_pool, up to the loop.
ConstantPoolCount ==
    /\ pc = "constant_pool"
    /\ outcome = "running"
    /\ LET c == Fetch(Cur(buffer), 2, "u16") IN
       /\ Advance(c)
       /\ IF c.st = "ok"
          THEN /\ count' = c.vals[1]
               /\ constants' = initial_constants
               /\ i' = 1
               /\ pc' = "cp_loop"
          ELSE UNCHANGED <<count, constants, i, pc>>
    /\ UNCHANGED <<first, tested, bytes, host, strict, base,
                   cf, owner, member, left,
                   attrs_left, attributes, attr_log>>

\* decode_constant_pool, one iteration of while i < count.
ConstantPoolEntry ==
    /\ pc = "cp_loop"
    /\ outcome = "running"
    /\ i < count
    /\ LET c == decode_entry(buffer) IN
       /\ Advance(c)
       /\ IF c.st = "ok"
          THEN /\ constants' = constants \o pushed(c.vals[1])
               /\ i' = i + index_step(c.vals[1])
          ELSE UNCHANGED <<constants, i>>
    /\ UNCHANGED <<first, tested, bytes, host, strict, base,
                   pc, cf, count, owner, member,
                   left, attrs_left, attributes, attr_log>>

\* decode_constant_pool returns (constants, buffer) when i < count fails.
ConstantPoolReturn ==
    /\ pc = "cp_loop"
    /\ outcome = "running"
    /\ ~(i < count)
    /\ cf' = [cf EXCEPT !.constant_pool = constants]
    /\ pc' = "access_flags"
    /\ UNCHANGED <<first, tested, bytes, host, strict, base,
                   outcome, panic_msg, buffer, count,
                   i, constants, owner, member, left, attrs_left, attributes,
                   reads, attr_log>>

----------------------------------------------------------------------------
(* constant_pool.rs: utf8_info_as_str;  attributes.rs: decode_attributes *)

\* utf8_info_as_str!(constant_pool, index): the text of a Utf8 entry; indexing
\* the vector panics out of range, every other variant panics in the match.
utf8_info_as_str(c, constant_pool, index) ==
    IF c.st # "ok" THEN c
    ELSE IF index >= Len(constant_pool) THEN Panic(c, "index out of bounds")
    ELSE IF constant_pool[index + 1].tag = "Utf8"
    THEN [c EXCEPT !.vals = Append(@, constant_pool[index + 1].data)]
    ELSE Panic(c, "Not Utf8 ConstantPool Error")

\* One iteration up to buffer = rest: the name index, its text, and the 16-bit
\* _attribute_length.  Values: <<attribute_name_index, attribute_name,
\* _attribute_length>>.
decode_attribute_header(buf, constant_pool) ==
    LET n == Fetch(Cur(buf), 2, "u16")
        r == IF n.st = "ok" THEN utf8_info_as_str(n, constant_pool, n.vals[1]) ELSE n
    IN Fetch(r, 2, "u16")

\* match attribute_name { _ => {} }: every arm but the default one is commented
\* out, and the default arm neither inserts nor splits: the dictionary and the
\* buffer are left as they are.
dispatch(dict, buf, attribute_name_index, attribute_name, attribute_length) ==
    [dict |-> dict, buf |-> buf]

\* decode_attributes, up to the loop.
AttributesCount ==
    /\ pc = "attributes"
    /\ outcome = "running"
    /\ LET c == Fetch(Cur(buffer), 2, "u16") IN
       /\ Advance(c)
       /\ IF c.st = "ok"
          THEN /\ attrs_left' = c.vals[1]
               /\ attributes' = <<>>
               /\ pc' = "attr_loop"
          ELSE UNCHANGED <<attrs_left, attributes, pc>>
    /\ UNCHANGED <<first, tested, bytes, host, strict, base,
                   cf, count, i, constants, owner,
                   member, left, attr_log>>

\* decode_attributes, one iteration of for _ in 0..attributes_count.
AttributesEntry ==
    /\ pc = "attr_loop"
    /\ outcome = "running"
    /\ attrs_left > 0
    /\ LET c == decode_attribute_header(buffer, cf.constant_pool)
           d == dispatch(attributes, c.buf, c.vals[1], c.vals[2], c.vals[3])
       IN
       /\ reads' = reads \o c.log
       /\ outcome' = IF c.st = "ok" THEN outcome ELSE c.st
       /\ panic_msg' = IF c.st = "ok" THEN panic_msg ELSE c.msg
       /\ IF c.st = "ok"
          THEN /\ buffer' = d.buf
               /\ attributes' = d.dict
               /\ attrs_left' = attrs_left - 1
               /\ attr_log' = Append(attr_log,
                                  [owner |-> owner, at |-> buffer.at, done |-> TRUE,
                                   name_index |-> c.vals[1], name |-> c.vals[2],
                                   length |-> c.vals[3], next |-> d.buf.at,
                                   dict |-> d.dict])
          ELSE /\ UNCHANGED <<buffer, attributes, attrs_left>>
               /\ attr_log' = IF Len(c.vals) = 0 THEN attr_log
                               ELSE Append(attr_log,
                                      [owner |-> owner, at |-> buffer.at, done |-> FALSE,
                                       name_index |-> c.vals[1], name |-> <<>>,
                                       length |-> 0, next |-> buffer.at,
                                       dict |-> attributes])
    /\ UNCHANGED <<first, tested, bytes, host, strict, base,
                   pc, cf, count, i, constants,
                   owner, member, left>>

\* decode_attributes returns (attributes, buffer) to decode_fields, which
\* pushes the FieldInfo and goes on with its loop.
AttributesReturnField ==
    /\ pc = "attr_loop"
    /\ outcome = "running"
    /\ attrs_left = 0
    /\ owner = "field"
    /\ cf' = [cf EXCEPT !.fields = Append(@, [member EXCEPT !.attributes = attributes])]
    /\ left' = left - 1
    /\ pc' = "fields_loop"
    /\ UNCHANGED <<first, tested, bytes, host, strict, base,
                   outcome, panic_msg, buffer, count,
                   i, constants, owner, member, attrs_left, attributes, reads,
                   attr_log>>

\* decode_attributes returns to decode_methods, which pushes the MethodInfo.
AttributesReturnMethod ==
    /\ pc = "attr_loop"
    /\ outcome = "running"
    /\ attrs_left = 0
    /\ owner = "method"
    /\ cf' = [cf EXCEPT !.methods = Append(@, [member EXCEPT !.attributes = attributes])]
    /\ left' = left - 1
    /\ pc' = "methods_loop"
    /\ UNCHANGED <<first, tested, bytes, host, strict, base,
                   outcome, panic_msg, buffer, count,
                   i, constants, owner, member, attrs_left, attributes, reads,
                   attr_log>>

\* decode_attributes returns to decode, which drops the remainder and returns
\* the JavaClassFile.
AttributesReturnClass ==
    /\ pc = "attr_loop"
    /\ outcome = "running"
    /\ attrs_left = 0
    /\ owner = "class"
    /\ cf' = [cf EXCEPT !.attributes = attributes]
    /\ outcome' = "returned"
    /\ pc' = "done"
    /\ UNCHANGED <<first, tested, bytes, host, strict, base,
                   panic_msg, buffer, count, i,
                   constants, owner, member, left, attrs_left, attributes,
                   reads, attr_log>>

----------------------------------------------------------------------------
(* lib.rs: decode;  classfile.rs *)

\* What a header step leaves alone.
HeaderUnchanged ==
    UNCHANGED <<first, tested, bytes, host, strict, base,
                count, i, constants, owner, member,
                left, attrs_left, attributes, attr_log>>

\* let magic = read_u32(head);
Magic ==
    /\ pc = "magic"
    /\ outcome = "running"
    /\ LET c == Fetch(Cur(buffer), 4, "u32") IN
       /\ Advance(c)
       /\ IF c.st = "ok"
          THEN cf' = [cf EXCEPT !.magic = c.vals[1]] /\ pc' = "minor_version"
          ELSE UNCHANGED <<cf, pc>>
    /\ HeaderUnchanged

\* let minor_version = read_u16(head);
MinorVersion ==
    /\ pc = "minor_version"
    /\ outcome = "running"
    /\ LET c == Fetch(Cur(buffer), 2, "u16") IN
       /\ Advance(c)
       /\ IF c.st = "ok"
          THEN cf' = [cf EXCEPT !.minor_version = c.vals[1]] /\ pc' = "major_version"
          ELSE UNCHANGED <<cf, pc>>
    /\ HeaderUnchanged

\* pub const SUPPORTED_MAJOR_VERSION: f32 = 61.0; decode makes no use of it.
SUPPORTED_MAJOR_VERSION == 61

\* A variant of the major version step that refuses a class file newer than
\* SUPPORTED_MAJOR_VERSION.
MajorVersion_gated ==
    /\ pc = "major_version"
    /\ outcome = "running"
    /\ LET r == Fetch(Cur(buffer), 2, "u16")
           c == IF r.st = "ok" /\ r.vals[1] > SUPPORTED_MAJOR_VERSION
                THEN Panic(r, "unsupported major version") ELSE r
       IN
       /\ Advance(c)
       /\ IF c.st = "ok"
          THEN cf' = [cf EXCEPT !.major_version = c.vals[1]] /\ pc' = "constant_pool"
          ELSE UNCHANGED <<cf, pc>>
    /\ HeaderUnchanged

\* let major_version = read_u16(head);
MajorVersion ==
    /\ pc = "major_version"
    /\ outcome = "running"
    /\ LET c == Fetch(Cur(buffer), 2, "u16") IN
       /\ Advance(c)
       /\ IF c.st = "ok"
          THEN cf' = [cf EXCEPT !.major_version = c.vals[1]] /\ pc' = "constant_pool"
          ELSE UNCHANGED <<cf, pc>>
    /\ HeaderUnchanged

\* let access_flags = read_u16(head);
AccessFlags ==
    /\ pc = "access_flags"
    /\ outcome = "running"
    /\ LET c == Fetch(Cur(buffer), 2, "u16") IN
       /\ Advance(c)
       /\ IF c.st = "ok"
          THEN cf' = [cf EXCEPT !.access_flags = c.vals[1]] /\ pc' = "this_class"
          ELSE UNCHANGED <<cf, pc>>
    /\ HeaderUnchanged

\* A variant of decode_this_or_super_class that resolves the index it reads
\* in the constant pool and panics when it is 0 or out of range.
decode_this_or_super_class_checked(buf) ==
    LET c == Fetch(Cur(buf), 2, "u16") IN
    IF c.st = "ok" /\ (c.vals[1] = 0 \/ c.vals[1] >= Len(cf.constant_pool))
    THEN Panic(c, "index out of bounds")
    ELSE c

\* decode_this_or_super_class
decode_this_or_super_class(buf) == Fetch(Cur(buf), 2, "u16")

\* let (super_class, rest) = ... in the place of this_class.
ThisClass_into_super_class ==
    /\ pc = "this_class"
    /\ outcome = "running"
    /\ LET c == decode_this_or_super_class(buffer) IN
       /\ Advance(c)
       /\ IF c.st = "ok"
          THEN cf' = [cf EXCEPT !.super_class = c.vals[1]] /\ pc' = "super_class"
          ELSE UNCHANGED <<cf, pc>>
    /\ HeaderUnchanged

ThisClass ==
    /\ pc = "this_class"
    /\ outcome = "running"
    /\ LET c == decode_this_or_super_class(buffer) IN
       /\ Advance(c)
       /\ IF c.st = "ok"
          THEN cf' = [cf EXCEPT !.this_class = c.vals[1]] /\ pc' = "super_class"
          ELSE UNCHANGED <<cf, pc>>
    /\ HeaderUnchanged

SuperClass ==
    /\ pc = "super_class"
    /\ outcome = "running"
    /\ LET c == decode_this_or_super_class(buffer) IN
       /\ Advance(c)
       /\ IF c.st = "ok"
          THEN cf' = [cf EXCEPT !.super_class = c.vals[1]] /\ pc' = "interfaces"
          ELSE UNCHANGED <<cf, pc>>
    /\ HeaderUnchanged

\* What a step of the interface, field or method loop leaves alone.
TableUnchanged ==
    UNCHANGED <<first, tested, bytes, host, strict, base,
                count, i, constants, attrs_left,
                attributes, attr_log>>

\* A variant of decode_interfaces whose loop is for _ in 0..=interfaces_count.
InterfacesCount_inclusive ==
    /\ pc = "interfaces"
    /\ outcome = "running"
    /\ LET c == Fetch(Cur(buffer), 2, "u16") IN
       /\ Advance(c)
       /\ IF c.st = "ok"
          THEN left' = c.vals[1] + 1 /\ pc' = "interfaces_loop"
          ELSE UNCHANGED <<left, pc>>
    /\ UNCHANGED <<cf, owner, member>>
    /\ TableUnchanged

\* decode_interfaces, up to the loop.
InterfacesCount ==
    /\ pc = "interfaces"
    /\ outcome = "running"
    /\ LET c == Fetch(Cur(buffer), 2, "u16") IN
       /\ Advance(c)
       /\ IF c.st = "ok"
          THEN left' = c.vals[1] /\ pc' = "interfaces_loop"
          ELSE UNCHANGED <<left, pc>>
    /\ UNCHANGED <<cf, owner, member>>
    /\ TableUnchanged

\* decode_interfaces, one iteration.
InterfacesEntry ==
    /\ pc = "interfaces_loop"
    /\ outcome = "running"
    /\ left > 0
    /\ LET c == Fetch(Cur(buffer), 2, "u16") IN
       /\ Advance(c)
       /\ IF c.st = "ok"
          THEN /\ cf' = [cf EXCEPT !.interfaces = Append(@, c.vals[1])]
               /\ left' = left - 1
          ELSE UNCHANGED <<cf, left>>
    /\ UNCHANGED <<pc, owner, member>>
    /\ TableUnchanged

\* decode_interfaces returns (interfaces, buffer).
InterfacesReturn ==
    /\ pc = "interfaces_loop"
    /\ outcome = "running"
    /\ left = 0
    /\ pc' = "fields"
    /\ UNCHANGED <<outcome, panic_msg, buffer, reads, cf, left, owner, member>>
    /\ TableUnchanged

\* decode_fields / decode_methods, up to the loop.
MembersCount(at, loop) ==
    /\ pc = at
    /\ outcome = "running"
    /\ LET c == Fetch(Cur(buffer), 2, "u16") IN
       /\ Advance(c)
       /\ IF c.st = "ok"
          THEN left' = c.vals[1] /\ pc' = loop
          ELSE UNCHANGED <<left, pc>>
    /\ UNCHANGED <<cf, owner, member>>
    /\ TableUnchanged

\* decode_fields / decode_methods, one iteration up to the call of
\* decode_attributes: access_flags, name_index, descriptor_index.
MembersEntry(loop, who) ==
    /\ pc = loop
    /\ outcome = "running"
    /\ left > 0
    /\ LET c == Fetch(Fetch(Fetch(Cur(buffer), 2, "u16"), 2, "u16"), 2, "u16") IN
       /\ Advance(c)
       /\ IF c.st = "ok"
          THEN /\ member' = [access_flags |-> c.vals[1], name_index |-> c.vals[2],
                             descriptor_index |-> c.vals[3], attributes |-> <<>>]
               /\ owner' = who
               /\ pc' = "attributes"
          ELSE UNCHANGED <<member, owner, pc>>
    /\ UNCHANGED <<cf, left>>
    /\ TableUnchanged

FieldsCount == MembersCount("fields", "fields_loop")
FieldsEntry == MembersEntry("fields_loop", "field")

\* decode_fields returns (fields, buffer).
FieldsReturn ==
    /\ pc = "fields_loop"
    /\ outcome = "running"
    /\ left = 0
    /\ pc' = "methods"
    /\ UNCHANGED <<outcome, panic_msg, buffer, reads, cf, left, owner, member>>
    /\ TableUnchanged

MethodsCount == MembersCount("methods", "methods_loop")
MethodsEntry == MembersEntry("methods_loop", "method")

\* decode_methods returns (methods, buffer); decode calls decode_attributes
\* for the class.
MethodsReturn ==
    /\ pc = "methods_loop"
    /\ outcome = "running"
    /\ left = 0
    /\ owner' = "class"
    /\ pc' = "attributes"
    /\ UNCHANGED <<outcome, panic_msg, buffer, reads, cf, left, member>>
    /\ TableUnchanged

----------------------------------------------------------------------------
(* classfile.rs: the access flags *)

\* The enums, each variant with its discriminant.
ClassAccessFlag ==
    [Public |-> 1, Final |-> 16, Super |-> 32, Interface |-> 512, Abstract |-> 1024,
     Synthetic |-> 4096, Annotation |-> 8192, Enum |-> 16384, Module |-> 32768]

FieldAccessFlag ==
    [Public |-> 1, Private |-> 2, Protected |-> 4, Static |-> 8, Final |-> 16,
     Volatile |-> 64, Transient |-> 128, Synthetic |-> 4096, Enum |-> 16384]

MethodAccessFlag ==
    [Public |-> 1, Private |-> 2, Protected |-> 4, Static |-> 8, Final |-> 16,
     Synchronized |-> 32, Bridge |-> 64, Varargs |-> 128, Native |-> 256,
     Abstract |-> 1024, Strict |-> 2048, Synthetic |-> 4096]

\* Every value of the three enums: the enum and the variant.
AccessFlags_all ==
    {[enum |-> "ClassAccessFlag", variant |-> v] : v \in DOMAIN ClassAccessFlag}
      \cup {[enum |-> "FieldAccessFlag", variant |-> v] : v \in DOMAIN FieldAccessFlag}
      \cup {[enum |-> "MethodAccessFlag", variant |-> v] : v \in DOMAIN MethodAccessFlag}

\* *self as u16
as_u16(self) ==
    CASE self.enum = "ClassAccessFlag" -> ClassAccessFlag[self.variant]
      [] self.enum = "FieldAccessFlag" -> FieldAccessFlag[self.variant]
      [] self.enum = "MethodAccessFlag" -> MethodAccessFlag[self.variant]

\* a & b on u16, bit by bit from the least significant.
RECURSIVE BitAnd(_, _)
BitAnd(a, b) ==
    IF a = 0 \/ b = 0 THEN 0
    ELSE (a % 2) * (b % 2) + 2 * BitAnd(a \div 2, b \div 2)

\* A variant of test that compares the flag word with the discriminant.
test_equal(self, flag) == as_u16(self) = flag

\* fn test(&self, flag: u16) -> bool { (*self as u16 & flag) != 0 }
test(self, flag) == BitAnd(as_u16(self), flag) # 0

\* The flag words test is called with: those of at most MaxBits bits, and
\* their complements.
MaxBits == 2

RECURSIVE Sparse(_)
Sparse(n) ==
    IF n = 0 THEN {0}
    ELSE LET p == Sparse(n - 1)
         IN p \cup UNION {{m + 2^k : k \in {j \in 0..15 : (m \div 2^j) % 2 = 0}} :
                            m \in p}

FlagWords == Sparse(MaxBits) \cup {65535 - m : m \in Sparse(MaxBits)}

\* A call self.test(flag): the receiver and the argument are in tested, the
\* call puts its result there.
TestFlag ==
    /\ tested.tag = "called"
    /\ tested' = [tag |-> "returned", self |-> tested.self, flag |-> tested.flag,
                  result |-> test(tested.self, tested.flag)]
    /\ UNCHANGED <<bytes, host, strict, base, pc, outcome, panic_msg, buffer, cf,
                   count, i, constants, owner, member, left, attrs_left,
                   attributes, reads, attr_log, first>>

----------------------------------------------------------------------------
(* The inputs.  A file is written either as the class file format has it     *)
(* ("be": every 16 and 32 bit field most significant byte first) or with its *)
(* fields least significant byte first ("le").                               *)

\* Longest sequence of constant pool entries enumerated.
MaxEntries == 2
\* Longest attribute list enumerated.
MaxAttrs == 2
\* The addresses of the input enumerated, modulo the alignment: 0..MaxBase.
MaxBase == 1

Enc(e, n) == IF e = "le" THEN <<n % 256, n \div 256>> ELSE <<n \div 256, n % 256>>
Enc32(e, n) == IF e = "le" THEN Enc(e, n) \o <<0, 0>> ELSE <<0, 0>> \o Enc(e, n)

Encodings == {"be", "le"}

Name_SourceFile == <<83, 111, 117, 114, 99, 101, 70, 105, 108, 101>>
Name_X == <<88>>

MagicBytes == <<202, 254, 186, 190>>
Header(e) == MagicBytes \o Enc(e, 0) \o Enc(e, 61)

Utf8Bytes(e, text) == <<1>> \o Enc(e, Len(text)) \o text

Kinds == {"Utf8", "Integer", "Float", "Long", "Double", "Class", "String",
          "FieldRef", "MethodRef", "InterfaceMethodRef", "NameAndType",
          "MethodHandle", "MethodType", "Dynamic", "InvokeDynamic", "Module",
          "Package"}
BadTags == {"Bad0", "Bad2", "Bad13", "Bad14", "Bad21", "Bad255"}
CoreKinds == {"Utf8", "Class", "Long", "Double"}

\* The bytes of one constant pool entry of kind k.
EntryBytes(e, k) ==
    CASE k = "Utf8" -> Utf8Bytes(e, Name_X)
      [] k = "Integer" -> <<3, 255, 255, 255, 254>>
      [] k = "Float" -> <<4, 63, 128, 0, 0>>
      [] k = "Long" -> <<5, 1, 2, 3, 4, 5, 6, 7, 8>>
      [] k = "Double" -> <<6, 64, 9, 33, 251, 84, 68, 45, 24>>
      [] k = "Class" -> <<7>> \o Enc(e, 1)
      [] k = "String" -> <<8>> \o Enc(e, 1)
      [] k = "FieldRef" -> <<9>> \o Enc(e, 2) \o Enc(e, 3)
      [] k = "MethodRef" -> <<10>> \o Enc(e, 2) \o Enc(e, 3)
      [] k = "InterfaceMethodRef" -> <<11>> \o Enc(e, 2) \o Enc(e, 3)
      [] k = "NameAndType" -> <<12>> \o Enc(e, 1) \o Enc(e, 1)
      [] k = "MethodHandle" -> <<15, 1>> \o Enc(e, 2)
      [] k = "MethodType" -> <<16>> \o Enc(e, 1)
      [] k = "Dynamic" -> <<17>> \o Enc(e, 0) \o Enc(e, 3)
      [] k = "InvokeDynamic" -> <<18>> \o Enc(e, 0) \o Enc(e, 3)
      [] k = "Module" -> <<19>> \o Enc(e, 1)
      [] k = "Package" -> <<20>> \o Enc(e, 1)
      [] k = "RawUtf8" -> <<1>> \o Enc(e, 2) \o <<255, 192>>
      [] k = "Bad0" -> <<0>>
      [] k = "Bad2" -> <<2>>
      [] k = "Bad13" -> <<13>>
      [] k = "Bad14" -> <<14>>
      [] k = "Bad21" -> <<21>>
      [] k = "Bad255" -> <<255>>

RECURSIVE PoolBytes(_, _)
PoolBytes(e, ks) ==
    IF ks = <<>> THEN <<>> ELSE EntryBytes(e, Head(ks)) \o PoolBytes(e, Tail(ks))

\* The slots the format gives a sequence of entries.
RECURSIVE Slots(_)
Slots(ks) ==
    IF ks = <<>> THEN 0
    ELSE (IF Head(ks) \in {"Long", "Double"} THEN 2 ELSE 1) + Slots(Tail(ks))

\* access_flags, this_class, super_class and four empty tables.
PlainTail(e) == Enc(e, 33) \o Enc(e, 1) \o Enc(e, 0) \o <<0, 0, 0, 0, 0, 0, 0, 0>>

PoolLists == UNION {[1..k -> CoreKinds] : k \in 0..MaxEntries}
\* "RawUtf8" is a Utf8 entry whose two bytes are no UTF-8 text.
SingleLists == {<<k>> : k \in Kinds \cup BadTags \cup {"RawUtf8"}}

\* Files of the constant pool family: the entries ks under the count the
\* format asks for, and under that count less one.
PoolFile(e, ks, cnt) == Header(e) \o Enc(e, cnt) \o PoolBytes(e, ks) \o PlainTail(e)

PoolFiles(lists) ==
    {PoolFile(e, ks, Slots(ks) + d) : e \in Encodings, ks \in lists, d \in {0, 1}}

\* The pool of the attribute family: #1 "SourceFile", #2 "X", #3 Class.
NamePool(e) ==
    Enc(e, 4) \o Utf8Bytes(e, Name_SourceFile) \o Utf8Bytes(e, Name_X)
      \o <<7>> \o Enc(e, 2)

AttrKinds == {"SourceFile", "X0", "X2", "Short", "ShortSF", "Ref0", "RefClass",
              "RefOut"}

\* One attribute: name index, 32-bit length, payload; "Short" and "ShortSF"
\* are a name index and a 16-bit zero only.
AttrBytes(e, a) ==
    CASE a = "SourceFile" -> Enc(e, 1) \o Enc32(e, 2) \o Enc(e, 2)
      [] a = "X0" -> Enc(e, 2) \o Enc32(e, 0)
      [] a = "X2" -> Enc(e, 2) \o Enc32(e, 2) \o <<170, 187>>
      [] a = "Short" -> Enc(e, 2) \o Enc(e, 0)
      [] a = "ShortSF" -> Enc(e, 1) \o Enc(e, 0)
      [] a = "Ref0" -> Enc(e, 0) \o Enc32(e, 0)
      [] a = "RefClass" -> Enc(e, 3) \o Enc32(e, 0)
      [] a = "RefOut" -> Enc(e, 9) \o Enc32(e, 0)

RECURSIVE AttrListBytes(_, _)
AttrListBytes(e, as) ==
    IF as = <<>> THEN <<>> ELSE AttrBytes(e, Head(as)) \o AttrListBytes(e, Tail(as))

AttrSection(e, as) == Enc(e, Len(as)) \o AttrListBytes(e, as)

AttrLists == UNION {[1..k -> AttrKinds] : k \in 0..MaxAttrs}

\* A member: access_flags, name_index, descriptor_index and its attributes.
MemberBytes(e, as) == Enc(e, 1) \o Enc(e, 2) \o Enc(e, 2) \o AttrSection(e, as)

MemberChoices == {<<>>, <<"Short">>, <<"X0">>}

\* A table of n members, each with the attributes as.
MemberTable(e, n, as) ==
    Enc(e, n) \o (IF n = 0 THEN <<>> ELSE MemberBytes(e, as))

\* A class with the top-level attributes as and no members.
ClassAttrFile(e, as) ==
    Header(e) \o NamePool(e) \o Enc(e, 33) \o Enc(e, 3) \o Enc(e, 0)
      \o Enc(e, 0) \o Enc(e, 0) \o Enc(e, 0) \o AttrSection(e, as)

ClassAttrFiles == {ClassAttrFile(e, as) : e \in Encodings, as \in AttrLists}

\* A class with ni interfaces, nf fields with the attributes fa and nm methods
\* with the attributes ma.
MemberFile(e, ni, nf, nm, fa, ma) ==
    Header(e) \o NamePool(e) \o Enc(e, 33) \o Enc(e, 3) \o Enc(e, 0)
      \o Enc(e, ni) \o (IF ni = 0 THEN <<>> ELSE Enc(e, 3))
      \o MemberTable(e, nf, fa) \o MemberTable(e, nm, ma) \o AttrSection(e, <<>>)

MemberFiles ==
    {MemberFile(e, ni, nf, nm, fa, ma) :
         e \in Encodings, ni \in {0, 1}, nf \in {0, 1}, nm \in {0, 1},
         fa \in MemberChoices, ma \in MemberChoices}

\* The smallest class file: a pool of a Utf8 and two Class entries, no
\* interface, field, method or attribute.
MinimalFile ==
    Header("be") \o Enc("be", 4) \o Utf8Bytes("be", Name_X)
      \o <<7>> \o Enc("be", 1) \o <<7>> \o Enc("be", 1)
      \o Enc("be", 33) \o Enc("be", 2) \o Enc("be", 3)
      \o <<0, 0, 0, 0, 0, 0, 0, 0>>

\* The inputs that are class files as the format defines them, with nothing
\* after the last top-level attribute: fields most significant byte first,
\* every attribute with its 32-bit length and a payload of that length.
WellFormedAttrs == {"SourceFile", "X0", "X2"}

ValidFiles ==
    {MinimalFile}
      \cup {ClassAttrFile("be", as) :
               as \in UNION {[1..k -> WellFormedAttrs] : k \in 0..MaxAttrs}}
      \cup {MemberFile("be", ni, nf, nm, fa, ma) :
               ni \in {0, 1}, nf \in {0, 1}, nm \in {0, 1},
               fa \in {<<>>, <<"X0">>}, ma \in {<<>>, <<"X0">>}}

\* fn hoge: decode(&[0u8; 4]); and a buffer of 0xff bytes.
OtherInputs == {<<0, 0, 0, 0>>, [k \in 1..12 |-> 255]}

\* A file the code decodes to the end, under four bytes that are not the
\* magic number: zeros, and the magic number least significant byte first.
BadMagicFiles ==
    {m \o SubSeq(PoolFile("le", <<"Class">>, 2), 5, Len(PoolFile("le", <<"Class">>, 2))) :
        m \in {<<0, 0, 0, 0>>, <<190, 186, 254, 202>>}}

\* A file whose cross-references point nowhere or to an entry of the wrong
\* kind.  Pool: #1 Utf8, #2 Class naming 0, #3 FieldRef of 2 and 7.  Then
\* this_class 9 (out of range), super_class 1 (a Utf8), the interface 0, a
\* field named by 9 with the descriptor 3 (a FieldRef), a method named by 0.
WildFile ==
    Header("le") \o Enc("le", 4) \o Utf8Bytes("le", Name_X)
      \o <<7>> \o Enc("le", 0) \o <<9>> \o Enc("le", 2) \o Enc("le", 7)
      \o Enc("le", 33) \o Enc("le", 9) \o Enc("le", 1)
      \o Enc("le", 1) \o Enc("le", 0)
      \o Enc("le", 1) \o Enc("le", 1) \o Enc("le", 9) \o Enc("le", 3) \o Enc("le", 0)
      \o Enc("le", 1) \o Enc("le", 1) \o Enc("le", 0) \o Enc("le", 0) \o Enc("le", 0)
      \o Enc("le", 0)

\* A file of two interfaces, two fields and two methods, in the layout the
\* code reads: the first field and the second method have one attribute.
TwoEachFile ==
    Header("le") \o NamePool("le") \o Enc("le", 33) \o Enc("le", 3) \o Enc("le", 0)
      \o Enc("le", 2) \o Enc("le", 3) \o Enc("le", 1)
      \o Enc("le", 2)
      \o Enc("le", 1) \o Enc("le", 2) \o Enc("le", 2) \o AttrSection("le", <<"Short">>)
      \o Enc("le", 2) \o Enc("le", 1) \o Enc("le", 2) \o AttrSection("le", <<>>)
      \o Enc("le", 2)
      \o Enc("le", 1) \o Enc("le", 2) \o Enc("le", 1) \o AttrSection("le", <<>>)
      \o Enc("le", 8) \o Enc("le", 1) \o Enc("le", 1) \o AttrSection("le", <<"ShortSF">>)
      \o Enc("le", 0)

Prefixes(x) == {SubSeq(x, 1, n) : n \in 0..(Len(x) - 1)}

Whole == PoolFiles(PoolLists) \cup PoolFiles(SingleLists) \cup ClassAttrFiles
           \cup MemberFiles \cup OtherInputs \cup BadMagicFiles
           \cup {MinimalFile, WildFile, TwoEachFile}

\* The files every strict prefix of which is an input too.
TruncBase ==
    {PoolFile(e, ks, Slots(ks) + 1) : e \in Encodings, ks \in SingleLists}
      \cup {x \in MemberFiles : Len(x) >= Len(Header("le")) + Len(NamePool("le")) + 34}

Inputs == Whole \cup UNION {Prefixes(x) : x \in TruncBase}

----------------------------------------------------------------------------
(* The specification *)

\* No earlier call of decode, no call of test.
NoCall == [tag |-> "none"]

Init ==
    /\ bytes \in Inputs
    /\ host \in {"little", "big"}
    /\ strict \in BOOLEAN
    /\ base \in (IF strict THEN 0..MaxBase ELSE {0})
    /\ pc = "magic"
    /\ outcome = "running"
    /\ panic_msg = ""
    /\ buffer = [at |-> 0, len |-> Len(bytes)]
    /\ cf = [magic |-> <<>>, minor_version |-> 0, major_version |-> 0,
             constant_pool |-> <<>>, access_flags |-> 0, this_class |-> 0,
             super_class |-> 0, interfaces |-> <<>>, fields |-> <<>>,
             methods |-> <<>>, attributes |-> <<>>]
    /\ count = 0
    /\ i = 0
    /\ constants = <<>>
    /\ owner = "none"
    /\ member = [access_flags |-> 0, name_index |-> 0, descriptor_index |-> 0,
                 attributes |-> <<>>]
    /\ left = 0
    /\ attrs_left = 0
    /\ attributes = <<>>
    /\ reads = <<>>
    /\ attr_log = <<>>
    /\ first = NoCall
    /\ tested = NoCall

Next ==
    \/ Magic
    \/ MinorVersion
    \/ MajorVersion
    \/ ConstantPoolCount
    \/ ConstantPoolEntry
    \/ ConstantPoolReturn
    \/ AccessFlags
    \/ ThisClass
    \/ SuperClass
    \/ InterfacesCount
    \/ InterfacesEntry
    \/ InterfacesReturn
    \/ FieldsCount
    \/ FieldsEntry
    \/ FieldsReturn
    \/ MethodsCount
    \/ MethodsEntry
    \/ MethodsReturn
    \/ AttributesCount
    \/ AttributesEntry
    \/ AttributesReturnField
    \/ AttributesReturnMethod
    \/ AttributesReturnClass

Spec == Init /\ [][Next]_vars

\* Two calls of decode in a row, on inputs that differ in bytes 4-7 only: when
\* the first call has ended, how it ended is kept in first and decode is
\* called on the same bytes under another minor and major version, on the
\* same host and build and at the same address.
OtherVersions == {<<3, 0, 45, 0>>, <<255, 255, 255, 255>>}

WithVersion(b, v) == [k \in 1..Len(b) |-> IF k \in 5..8 THEN v[k - 4] ELSE b[k]]

DecodeAgain ==
    /\ outcome # "running"
    /\ first = NoCall
    /\ \E v \in OtherVersions :
          /\ WithVersion(bytes, v) # bytes
          /\ bytes' = WithVersion(bytes, v)
    /\ first' = [tag |-> "ended", bytes |-> bytes, outcome |-> outcome,
                 panic_msg |-> panic_msg, cf |-> cf, buffer |-> buffer,
                 reads |-> reads]
    /\ pc' = "magic"
    /\ outcome' = "running"
    /\ panic_msg' = ""
    /\ buffer' = [at |-> 0, len |-> Len(bytes)]
    /\ cf' = [magic |-> <<>>, minor_version |-> 0, major_version |-> 0,
              constant_pool |-> <<>>, access_flags |-> 0, this_class |-> 0,
              super_class |-> 0, interfaces |-> <<>>, fields |-> <<>>,
              methods |-> <<>>, attributes |-> <<>>]
    /\ count' = 0
    /\ i' = 0
    /\ constants' = <<>>
    /\ owner' = "none"
    /\ member' = [access_flags |-> 0, name_index |-> 0, descriptor_index |-> 0,
                  attributes |-> <<>>]
    /\ left' = 0
    /\ attrs_left' = 0
    /\ attributes' = <<>>
    /\ reads' = <<>>
    /\ attr_log' = <<>>
    /\ UNCHANGED <<host, strict, base, tested>>

NextPair == Next \/ DecodeAgain

\* A call of AccessFlag::test, made before decode is called on the four zero
\* bytes of fn hoge: any variant of the three enums on any flag word.
InitFlags ==
    /\ bytes = <<0, 0, 0, 0>>
    /\ host \in {"little", "big"}
    /\ strict = FALSE
    /\ base = 0
    /\ pc = "magic"
    /\ outcome = "running"
    /\ panic_msg = ""
    /\ buffer = [at |-> 0, len |-> Len(bytes)]
    /\ cf = [magic |-> <<>>, minor_version |-> 0, major_version |-> 0,
             constant_pool |-> <<>>, access_flags |-> 0, this_class |-> 0,
             super_class |-> 0, interfaces |-> <<>>, fields |-> <<>>,
             methods |-> <<>>, attributes |-> <<>>]
    /\ count = 0
    /\ i = 0
    /\ constants = <<>>
    /\ owner = "none"
    /\ member = [access_flags |-> 0, name_index |-> 0, descriptor_index |-> 0,
                 attributes |-> <<>>]
    /\ left = 0
    /\ attrs_left = 0
    /\ attributes = <<>>
    /\ reads = <<>>
    /\ attr_log = <<>>
    /\ first = NoCall
    /\ tested \in {[tag |-> "called", self |-> self, flag |-> flag] :
                      self \in AccessFlags_all, flag \in FlagWords}

NextFlags == TestFlag

SpecFlags == InitFlags /\ [][NextFlags]_vars

SpecPair == Init /\ [][NextPair]_vars

----------------------------------------------------------------------------
(* Definitions the properties share *)

\* What decode hands to its caller: the JavaClassFile when it returns, and
\* nothing when it panics or traps; its return type has no error value.
Result ==
    IF outcome = "returned" THEN [tag |-> "JavaClassFile", tree |-> cf]
    ELSE [tag |-> "None"]

\* The bytes at offsets at .. at + w - 1, first byte most significant.
BigEndianWord(at, w) == [k \in 1..w |-> bytes[at + k]]

\* A natural number below 2^16 as a word of w >= 2 bytes.
NatToWord(n, w) == [k \in 1..w |-> IF k = w THEN n % 256
                                    ELSE IF k = w - 1 THEN n \div 256 ELSE 0]

\* The value of a read as a word.
ValWord(r) == IF r.rd = "u16" THEN NatToWord(r.val, 2) ELSE r.val

\* The constant pool has been returned to decode.
PoolReturned ==
    pc \notin {"magic", "minor_version", "major_version", "constant_pool", "cp_loop"}

\* The sections of a class file in the order of the format, by the field of
\* JavaClassFile each fills.
SectionOrder ==
    <<"magic", "minor_version", "major_version", "constant_pool", "access_flags",
      "this_class", "super_class", "interfaces", "fields", "methods", "attributes">>

\* The section decode is at: 1..11, and 12 when it has returned.  The
\* attributes of a field or method belong to the field or method table.
Section ==
    CASE pc = "magic" -> 1
      [] pc = "minor_version" -> 2
      [] pc = "major_version" -> 3
      [] pc \in {"constant_pool", "cp_loop"} -> 4
      [] pc = "access_flags" -> 5
      [] pc = "this_class" -> 6
      [] pc = "super_class" -> 7
      [] pc \in {"interfaces", "interfaces_loop"} -> 8
      [] pc \in {"fields", "fields_loop"} -> 9
      [] pc \in {"methods", "methods_loop"} -> 10
      [] pc \in {"attributes", "attr_loop"} ->
            (IF owner = "field" THEN 9 ELSE IF owner = "method" THEN 10 ELSE 11)
      [] pc = "done" -> 12

\* The field of section k is as decode found it when it was called.
Untouched(k) ==
    IF k \in {2, 3, 5, 6, 7} THEN cf[SectionOrder[k]] = 0
    ELSE cf[SectionOrder[k]] = <<>>

\* The index resolves to a Utf8 entry of the pool.
Resolves(pool, index) == index < Len(pool) /\ pool[index + 1].tag = "Utf8"

\* The names of the attribute kinds of enum AttributeInfo that have a payload
\* structure: ConstantValue, Code, StackMapTable, Exceptions, InnerClasses,
\* EnclosingMethod, Signature, SourceFile, LineNumberTable,
\* LocalVariableTable, LocalVariableTypeTable, BootstrapMethods, NestHost,
\* NestMembers, Record, PermittedSubtypes.
ModelledNames ==
    {<<67, 111, 110, 115, 116, 97, 110, 116, 86, 97, 108, 117, 101>>,
     <<67, 111, 100, 101>>,
     <<83, 116, 97, 99, 107, 77, 97, 112, 84, 97, 98, 108, 101>>,
     <<69, 120, 99, 101, 112, 116, 105, 111, 110, 115>>,
     <<73, 110, 110, 101, 114, 67, 108, 97, 115, 115, 101, 115>>,
     <<69, 110, 99, 108, 111, 115, 105, 110, 103, 77, 101, 116, 104, 111, 100>>,
     <<83, 105, 103, 110, 97, 116, 117, 114, 101>>,
     <<83, 111, 117, 114, 99, 101, 70, 105, 108, 101>>,
     <<76, 105, 110, 101, 78, 117, 109, 98, 101, 114, 84, 97, 98, 108, 101>>,
     <<76, 111, 99, 97, 108, 86, 97, 114, 105, 97, 98, 108, 101, 84, 97, 98, 108, 101>>,
     <<76, 111, 99, 97, 108, 86, 97, 114, 105, 97, 98, 108, 101, 84, 121, 112, 101, 84, 97, 98, 108, 101>>,
     <<66, 111, 111, 116, 115, 116, 114, 97, 112, 77, 101, 116, 104, 111, 100, 115>>,
     <<78, 101, 115, 116, 72, 111, 115, 116>>,
     <<78, 101, 115, 116, 77, 101, 109, 98, 101, 114, 115>>,
     <<82, 101, 99, 111, 114, 100>>,
     <<80, 101, 114, 109, 105, 116, 116, 101, 100, 83, 117, 98, 116, 121, 112, 101, 115>>}

----------------------------------------------------------------------------
(* C1..C10 *)

\* C1: whenever a read of decode needs more bytes than remain in the buffer,
\* decode ends by returning a Truncation error value to its caller.
C1_TruncationErrorReturned ==
    (outcome = "panicked" /\ panic_msg = "mid > len") => Result.tag = "Truncation"

\* C2: every primitive read is applied to a slice holding at least as many
\* bytes as the read interprets, and those bytes lie inside the input: no
\* byte at an offset >= the input length is read, whatever the input.
C2_ReadsInBounds ==
    /\ outcome # "ub"
    /\ \A k \in 1..Len(reads) :
          /\ reads[k].span >= reads[k].width
          /\ reads[k].at >= 0
          /\ reads[k].at + reads[k].width <= Len(bytes)

\* C2 witness: a truncated input stopped decode after reads of several
\* widths, a text among them.
C2_Witness ==
    /\ outcome = "panicked"
    /\ panic_msg = "mid > len"
    /\ Len(reads) >= 6
    /\ \E k \in 1..Len(reads) : reads[k].rd = "str" /\ reads[k].width = 10
    /\ Last(reads).at + Last(reads).width = Len(bytes)

\* C3: every integer read is big-endian: read_u16, read_u32, read_i32 and
\* read_i64 return the value of the bytes taken most significant first.
C3_IntegersBigEndian ==
    \A k \in 1..Len(reads) :
        (reads[k].ok /\ reads[k].rd \in {"u16", "u32", "i32", "i64"})
            => ValWord(reads[k]) = BigEndianWord(reads[k].at, reads[k].width)

\* C4: the bits of every Float and Double constant are its payload bytes taken
\* most significant first, on a host of either byte order, and read_f32 /
\* read_f64 agree with the integer reads of the same width on the same bytes.
C4_FloatsBigEndian ==
    \A k \in 1..Len(reads) :
        (reads[k].ok /\ reads[k].rd \in {"f32", "f64"})
            => /\ reads[k].val = BigEndianWord(reads[k].at, reads[k].width)
               /\ reads[k].rd = "f32"
                     => reads[k].val = read_i32([at |-> reads[k].at, len |-> 4])
               /\ reads[k].rd = "f64"
                     => reads[k].val = read_i64([at |-> reads[k].at, len |-> 8])

\* C5 as claimed: a constant pool returned under a count N >= 1, N being the
\* count as decode_constant_pool read it, has exactly N slots.
C5_ExactlyCountSlots ==
    (PoolReturned /\ count >= 1) => Len(cf.constant_pool) = count

\* C5 amended: it has N slots, or N + 1 when the entry stored at index N - 1,
\* the one decoded in the last iteration, is a Long or a Double.
C5_CountSlotsOrOneMore ==
    (PoolReturned /\ count >= 1)
        => LET cp == cf.constant_pool
               straddles == Len(cp) >= count /\ cp[count].tag \in {"Long", "Double"}
           IN Len(cp) = IF straddles THEN count + 1 ELSE count

\* C5 witness: a pool returned with a Long or a Double at index N - 1, and
\* one with a Long or a Double at index N - 2.
C5_Witness ==
    /\ PoolReturned
    /\ count >= 3
    /\ Len(cf.constant_pool) = count + 1
    /\ cf.constant_pool[count].tag \in {"Long", "Double"}
    /\ cf.constant_pool[count - 2].tag \in {"Long", "Double"}

\* C6: in a returned constant pool slot 0 is the Dummy, every Long or Double
\* is followed by a Dummy, and there is no other Dummy.
C6_PlaceholderSlots ==
    PoolReturned
        => LET cp == cf.constant_pool IN
           /\ Len(cp) >= 1
           /\ cp[1] = Dummy
           /\ \A k \in 1..Len(cp) :
                 /\ cp[k].tag \in {"Long", "Double"} => (k < Len(cp) /\ cp[k + 1] = Dummy)
                 /\ (k > 1 /\ cp[k] = Dummy) => cp[k - 1].tag \in {"Long", "Double"}

\* C6 witness: a returned pool holding a Double, its Dummy and an entry of
\* another kind after it.
C6_Witness ==
    /\ PoolReturned
    /\ Len(cf.constant_pool) >= 4
    /\ cf.constant_pool[2].tag = "Double"
    /\ cf.constant_pool[3] = Dummy
    /\ cf.constant_pool[4].tag = "Utf8"

\* C7: when the constant pool loop reads a tag byte that is no constant kind,
\* decode fails with an UnknownTag error reported to its caller: no entry is
\* appended for the tag, no later byte is read, no ClassFile is returned.
C7_UnknownTagErrorReturned ==
    (/\ reads # <<>>
     /\ Last(reads).rd = "tag"
     /\ Last(reads).ok
     /\ ConstantKind_from(Last(reads).val) = "Unknown")
        => /\ Result.tag = "UnknownTag"
           /\ Len(constants) = i

\* C8: an attribute is a 16-bit name index, a 32-bit length L and L payload
\* bytes; when its name has no variant decoder the dictionary gains no entry
\* and the next attribute is read 6 + L bytes after the attribute's first.
C8_UnknownAttributeSkipped ==
    \A k \in 1..Len(attr_log) :
        LET a == attr_log[k] IN
        (a.done /\ a.name \notin ModelledNames /\ a.at + 6 <= Len(bytes))
            => /\ a.next >= a.at + 6
               /\ NatToWord(a.next - a.at - 6, 4) = BigEndianWord(a.at + 2, 4)
               /\ a.name_index \notin DOMAIN a.dict

\* C9: when the name index of an attribute does not resolve to a Utf8 entry
\* of the constant pool, decode fails with a BadReference error reported to
\* its caller.
C9_BadReferenceErrorReturned ==
    (/\ attr_log # <<>>
     /\ ~Resolves(cf.constant_pool, Last(attr_log).name_index))
        => Result.tag = "BadReference"

\* C10: after an attribute whose name is that of a modelled kind the
\* dictionary holds an entry under the attribute's name index.
C10_ModelledAttributeStored ==
    \A k \in 1..Len(attr_log) :
        LET a == attr_log[k] IN
        (a.done /\ a.name \in ModelledNames) => a.name_index \in DOMAIN a.dict

----------------------------------------------------------------------------
(* C11..C20 *)

\* C11: when two attributes of one section, the second read where the first
\* ended, carry the same name index and that name is of a modelled kind, the
\* dictionary after the second holds one entry under that index, made from
\* the second attribute.
C11_LastAttributeWins ==
    \A k \in 1..(Len(attr_log) - 1) :
        LET a == attr_log[k]
            b == attr_log[k + 1]
        IN (/\ a.done /\ b.done
            /\ a.owner = b.owner /\ b.at = a.next
            /\ a.name_index = b.name_index
            /\ b.name \in ModelledNames)
               => /\ b.name_index \in DOMAIN b.dict
                  /\ b.dict[b.name_index].at = b.at

\* C12: decode goes through the sections in the order of the format, one at
\* a time and none skipped; magic is read at bytes 0-3, the minor version at
\* 4-5, the major version at 6-7 and the constant pool from byte 8; what a
\* step reads starts at the offset where the step before it left the cursor;
\* and the field of a section not yet reached (for the three tables: not yet
\* begun) is untouched.
C12_SectionsInOrder ==
    [][/\ Section' \in {Section, Section + 1}
       /\ reads' # reads => reads'[Len(reads) + 1].at = buffer.at
       /\ (Section' > 1 => (reads'[1].at = 0 /\ reads'[1].width = 4))
       /\ (Section' > 2 => (reads'[2].at = 4 /\ reads'[2].width = 2))
       /\ (Section' > 3 => (reads'[3].at = 6 /\ reads'[3].width = 2))
       /\ ((Section' > 3 /\ Len(reads') > 3) => reads'[4].at = 8)
       /\ \A k \in 1..11 :
             (k > Section' \/ (k = Section' /\ k \notin {8, 9, 10})) => Untouched(k)'
      ]_vars

\* C12 witness: decode returned after an interface, a field and a method, each
\* member with an attribute, and consumed the whole input.
C12_Witness ==
    /\ outcome = "returned"
    /\ Section = 12
    /\ Len(cf.interfaces) = 1
    /\ Len(cf.fields) = 1
    /\ Len(cf.methods) = 1
    /\ Len(attr_log) = 2
    /\ buffer.len = 0

\* C13: when the first four bytes of the input are not CA FE BA BE, decode
\* ends by reporting a FormatMismatch failure to its caller, and so returns
\* no JavaClassFile; already so on a build that lets misaligned loads be.
C13_FormatMismatchReported ==
    (/\ ~strict
     /\ Len(bytes) >= 4
     /\ BigEndianWord(0, 4) # MagicBytes
     /\ outcome # "running")
        => Result.tag = "FormatMismatch"

\* C14: on a valid class file with nothing after its last top-level attribute
\* decode ends by returning, and the remainder decode_attributes hands back
\* for the top-level dictionary is empty: the cursor is at the input length;
\* already so on a build that lets misaligned loads be.
C14_ValidFileConsumedWhole ==
    (~strict /\ bytes \in ValidFiles /\ outcome # "running")
        => /\ outcome = "returned"
           /\ buffer.len = 0
           /\ buffer.at = Len(bytes)

\* C15: the minimal class file decodes: a JavaClassFile is returned whose pool
\* has 4 slots, whose interface, field and method lists and attribute
\* dictionary are empty, and no byte of the input remains; already so on a
\* build that lets misaligned loads be.
C15_MinimalFileDecodes ==
    (~strict /\ bytes = MinimalFile /\ outcome # "running")
        => /\ Result.tag = "JavaClassFile"
           /\ Len(cf.constant_pool) = 4
           /\ cf.interfaces = <<>>
           /\ cf.fields = <<>>
           /\ cf.methods = <<>>
           /\ DOMAIN cf.attributes = {}
           /\ buffer.len = 0

\* The reads a step made, and the values of the 16-bit reads among those
\* after the first.
NewReads == SubSeq(reads', Len(reads) + 1, Len(reads'))
IndicesRead ==
    LET u == SelectSeq(Tail(NewReads), LAMBDA r : r.rd = "u16")
    IN [k \in 1..Len(u) |-> u[k].val]

\* C16: a step that reads a cross-reference index other than an attribute
\* name (this_class, super_class, an interface, the name and descriptor of a
\* member, the indices of a constant pool entry) stores the index as read
\* when its reads succeed, and when it fails it fails for want of bytes, on a
\* misaligned load or on an unknown tag, never on the value of an index; the
\* member pushed to the table carries the indices read.
C16_IndicesStoredUnchecked ==
    [][/\ (/\ pc \in {"this_class", "super_class", "interfaces_loop", "fields_loop",
                      "methods_loop", "cp_loop"}
          /\ outcome' # "running")
            => /\ panic_msg' \in {"mid > len", "misaligned pointer dereference",
                                  "Unknown ConstantKind value"}
               /\ panic_msg' = "Unknown ConstantKind value" => Len(NewReads) = 1
       /\ (outcome' = "running" /\ reads' # reads)
            => /\ pc = "this_class" => cf'.this_class = Last(reads').val
               /\ pc = "super_class" => cf'.super_class = Last(reads').val
               /\ pc = "interfaces_loop"
                     => cf'.interfaces = Append(cf.interfaces, Last(reads').val)
               /\ pc \in {"fields_loop", "methods_loop"}
                     => <<member'.name_index, member'.descriptor_index>> = IndicesRead
               /\ (pc = "cp_loop" /\ ConstantKind_from(NewReads[1].val) # "Utf8")
                     => constants'[Len(constants) + 1].idx = IndicesRead
       /\ (pc = "attr_loop" /\ pc' = "fields_loop")
            => /\ Last(cf'.fields).name_index = member.name_index
               /\ Last(cf'.fields).descriptor_index = member.descriptor_index
       /\ (pc = "attr_loop" /\ pc' = "methods_loop")
            => /\ Last(cf'.methods).name_index = member.name_index
               /\ Last(cf'.methods).descriptor_index = member.descriptor_index
       /\ (pc = "cp_loop" /\ pc' = "access_flags") => cf'.constant_pool = constants
      ]_vars

\* C16 witness: decode returned a tree whose this_class is out of range,
\* whose super_class and field descriptor name entries of the wrong kind,
\* whose interface and method name are 0, and whose pool holds a Class naming
\* 0 and a FieldRef of an index out of range.
C16_Witness ==
    /\ outcome = "returned"
    /\ cf.this_class = 9 /\ cf.this_class >= Len(cf.constant_pool)
    /\ cf.super_class = 1 /\ cf.constant_pool[2].tag = "Utf8"
    /\ cf.interfaces = <<0>>
    /\ Len(cf.fields) = 1
    /\ cf.fields[1].name_index = 9
    /\ cf.fields[1].descriptor_index = 3 /\ cf.constant_pool[4].tag = "FieldRef"
    /\ cf.constant_pool[3].idx = <<0>>
    /\ cf.constant_pool[4].idx = <<2, 7>>
    /\ Len(cf.methods) = 1
    /\ cf.methods[1].name_index = 0

\* The tree but for its version fields.
SansVersion(tree) == [tree EXCEPT !.minor_version = 0, !.major_version = 0]

\* C17: of two calls of decode on inputs that differ in bytes 4-7 only,
\* either both fail or both return, and then the two trees are the same but
\* for minor_version and major_version, which hold what each call read at
\* bytes 4-5 and 6-7.
C17_VersionIndependence ==
    (first # NoCall /\ outcome # "running")
        => /\ (outcome = "returned") <=> (first.outcome = "returned")
           /\ outcome = "returned"
                 => /\ SansVersion(cf) = SansVersion(first.cf)
                    /\ cf.minor_version = reads[2].val
                    /\ cf.major_version = reads[3].val
                    /\ first.cf.minor_version = first.reads[2].val
                    /\ first.cf.major_version = first.reads[3].val
                    /\ reads[2].at = 4 /\ reads[3].at = 6

\* C17 witness: both calls returned, the first under the version 61.0 and the
\* second under 0xffff.0xffff, with a tree of a field and a method.
C17_Witness ==
    /\ first # NoCall
    /\ outcome = "returned"
    /\ first.outcome = "returned"
    /\ first.cf.major_version = 61
    /\ cf.major_version = 65535
    /\ cf.minor_version = 65535
    /\ Len(cf.fields) = 1
    /\ Len(cf.methods) = 1
    /\ Len(cf.constant_pool) = 4

\* The bits set in a 16-bit word.
BitsOf(n) == {k \in 0..15 : (n \div 2^k) % 2 = 1}

\* C18: F.test(m) is TRUE exactly when m and the discriminant B of F have a
\* set bit in common, that is when (m AND B) is not 0, for every variant F of
\* the three enums and every flag word m; and the call changes nothing but
\* its own result.
C18_TestIsBitmask ==
    [][tested'.tag = "returned"
         => /\ tested'.result
                  = (BitsOf(tested'.flag) \cap BitsOf(as_u16(tested'.self)) # {})
            /\ UNCHANGED <<bytes, host, strict, base, pc, outcome, panic_msg,
                           buffer, cf, count, i, constants, owner, member, left,
                           attrs_left, attributes, reads, attr_log, first>>
      ]_vars

\* C18 witness: test answered TRUE for a flag word of several bits that is not
\* the discriminant.
C18_Witness ==
    /\ tested.tag = "returned"
    /\ tested.result
    /\ tested.self = [enum |-> "MethodAccessFlag", variant |-> "Synchronized"]
    /\ tested.flag = 65535 - 1024 - 1

\* C19: the remainder every step leaves is a suffix of the slice it started
\* from (it ends where that slice ends and begins no earlier), so the offset
\* of the cursor never decreases; every read begins at or after the end of
\* the read before it, so no byte of the input is part of two fields; and
\* while decode runs the cursor is past every byte read.
C19_ForwardOnly ==
    [][/\ buffer'.at >= buffer.at
       /\ buffer'.len >= 0
       /\ buffer'.at + buffer'.len = buffer.at + buffer.len
       /\ \A k \in 1..(Len(reads') - 1) :
             reads'[k + 1].at >= reads'[k].at + reads'[k].width
       /\ (outcome' = "running" /\ reads' # <<>>)
             => buffer'.at >= Last(reads').at + Last(reads').width
      ]_vars

\* C19 witness: decode returned at the end of the input after reading a text,
\* a method and two attributes.
C19_Witness ==
    /\ outcome = "returned"
    /\ buffer.at = Len(bytes)
    /\ Len(reads) >= 20
    /\ \E k \in 1..Len(reads) : reads[k].rd = "str" /\ reads[k].width = 10
    /\ Len(cf.methods) = 1
    /\ Len(attr_log) >= 2

\* C20: the constant pool loop starts with i = 1; at the head of every
\* iteration i is the number of slots in the table, so the entry decoded is
\* stored at index i; an iteration runs only when i < count; the first byte
\* it reads is a tag byte and it reads no other (none at all when the input
\* ends there and it panics); when it succeeds it has read one tag byte,
\* appends the entry of the kind of that tag and adds 1 to i, or, for a Long
\* or a Double, appends the entry and a Dummy and adds 2; the loop is left
\* only when i < count fails.
C20_LoopIndexIsSlotCount ==
    [][/\ (pc = "constant_pool" /\ pc' = "cp_loop") => i' = 1
       /\ pc' = "cp_loop" => i' = Len(constants')
       /\ (pc = "cp_loop" /\ pc' = "cp_loop")
            => /\ i < count
               /\ Len(SelectSeq(NewReads, LAMBDA r : r.rd = "tag")) <= 1
               /\ reads' # reads => NewReads[1].rd = "tag"
               /\ outcome' = "running"
                     => LET e == constants'[i + 1] IN
                        /\ Len(SelectSeq(NewReads, LAMBDA r : r.rd = "tag")) = 1
                        /\ e.tag = ConstantKind_from(NewReads[1].val)
                        /\ IF e.tag \in {"Long", "Double"}
                           THEN constants' = constants \o <<e, Dummy>> /\ i' = i + 2
                           ELSE constants' = Append(constants, e) /\ i' = i + 1
       /\ (pc = "cp_loop" /\ pc' # "cp_loop") => ~(i < count)
      ]_vars

\* C20 witness: the head of an iteration with i = 3 < count, after a Long
\* stored at index 1 and its Dummy at index 2.
C20_Witness ==
    /\ pc = "cp_loop"
    /\ outcome = "running"
    /\ i = 3
    /\ i < count
    /\ Len(constants) = 3
    /\ constants[2].tag = "Long"
    /\ constants[3] = Dummy

----------------------------------------------------------------------------
(* C21..C23 *)

\* The bytes the layout of each kind takes, tag included; a Utf8 takes 3 and
\* its text.
LayoutBytes(kind) ==
    CASE kind \in {"Class", "String", "MethodType", "Module", "Package"} -> 3
      [] kind = "MethodHandle" -> 4
      [] kind \in {"FieldRef", "MethodRef", "InterfaceMethodRef", "NameAndType",
                   "Dynamic", "InvokeDynamic", "Integer", "Float"} -> 5
      [] kind \in {"Long", "Double"} -> 9
      [] kind = "Utf8" -> 3

\* C21: an iteration of the constant pool loop that succeeds moves the cursor
\* by the bytes of the layout of the entry's kind, tag included: 3, 4, 5 or
\* 9, and 3 + len for a Utf8, len being the 16-bit length as read; the text
\* stored for a Utf8 is the len bytes after the length, whatever they are.
C21_EntryConsumesItsLayout ==
    [][(pc = "cp_loop" /\ pc' = "cp_loop" /\ outcome' = "running")
         => LET e == constants'[Len(constants) + 1]
                len == NewReads[2].val
            IN /\ e.tag # "Utf8"
                    => buffer'.at = buffer.at + LayoutBytes(e.tag)
               /\ e.tag = "Utf8"
                    => /\ NewReads[2].rd = "u16"
                       /\ NewReads[2].at = buffer.at + 1
                       /\ buffer'.at = buffer.at + LayoutBytes(e.tag) + len
                       /\ e.data = [k \in 1..len |-> bytes[buffer.at + 3 + k]]
      ]_vars

\* C21 witness: a returned pool whose Utf8 entry holds the bytes FF C0, which
\* are no UTF-8 text.
C21_Witness ==
    /\ PoolReturned
    /\ Len(cf.constant_pool) = 2
    /\ cf.constant_pool[2].tag = "Utf8"
    /\ cf.constant_pool[2].data = <<255, 192>>

\* The loop of a table, the step that reads its count, and where decode goes
\* when the loop is over.
TableLoops == {"interfaces_loop", "fields_loop", "methods_loop"}
CountStep(loop) ==
    CASE loop = "interfaces_loop" -> "interfaces"
      [] loop = "fields_loop" -> "fields"
      [] loop = "methods_loop" -> "methods"
AfterLoop(loop) ==
    CASE loop = "interfaces_loop" -> "fields"
      [] loop = "fields_loop" -> "methods"
      [] loop = "methods_loop" -> "attributes"
Table(tree, loop) ==
    CASE loop = "interfaces_loop" -> tree.interfaces
      [] loop = "fields_loop" -> tree.fields
      [] loop = "methods_loop" -> tree.methods

\* C22: the 16-bit count read before the loop of a table is the number of
\* iterations left and the table is empty then; an iteration runs only with
\* iterations left, and when it succeeds the table gains one element at its
\* end and one iteration fewer is left: an interface is the 16-bit value
\* read, 2 bytes on, and a member is the access flags, name index and
\* descriptor index read in that order and then the dictionary
\* decode_attributes returns; the loop is left only with no iteration left,
\* and with none left it is left at once, reading nothing and without
\* failing.  So the interface list is the 2 bytes of its count and 2 bytes
\* for each element.
C22_CountBoundsTable ==
    [][\A loop \in TableLoops :
         /\ (pc = CountStep(loop) /\ pc' = loop)
              => /\ left' = Last(reads').val
                 /\ Last(reads').rd = "u16"
                 /\ buffer'.at = buffer.at + 2
                 /\ Table(cf', loop) = <<>>
         /\ (pc = loop /\ left = 0 /\ outcome = "running")
              => /\ pc' = AfterLoop(loop)
                 /\ outcome' = "running"
                 /\ reads' = reads
                 /\ buffer' = buffer
                 /\ cf' = cf
         /\ (pc = loop /\ pc' # loop) => (left = 0 \/ pc' = "attributes")
         /\ (pc = loop /\ left > 0 /\ outcome' = "running")
              => IF loop = "interfaces_loop"
                 THEN /\ cf'.interfaces = Append(cf.interfaces, Last(reads').val)
                      /\ left' = left - 1
                      /\ buffer'.at = buffer.at + 2
                      /\ Len(NewReads) = 1
                 ELSE /\ pc' = "attributes"
                      /\ Len(NewReads) = 3
                      /\ member' = [access_flags |-> NewReads[1].val,
                                    name_index |-> NewReads[2].val,
                                    descriptor_index |-> NewReads[3].val,
                                    attributes |-> <<>>]
                      /\ NewReads[1].at = buffer.at
                      /\ buffer'.at = buffer.at + 6
                      /\ left' = left /\ cf' = cf
         /\ (pc \in {"attributes", "attr_loop"} /\ pc' = loop)
              => /\ Table(cf', loop)
                      = Append(Table(cf, loop), [member EXCEPT !.attributes = attributes])
                 /\ left' = left - 1
                 /\ left > 0
         /\ (pc \in {"attributes", "attr_loop"} /\ pc' \in {"attributes", "attr_loop"})
              => (left' = left /\ cf' = cf /\ member' = member)
         /\ (pc' = "interfaces_loop" /\ outcome' = "running")
              => LET n == Len(cf'.interfaces)
                     c == reads'[Len(reads') - n]
                 IN /\ c.val = n + left'
                    /\ buffer'.at = c.at + 2 + 2 * n
                    /\ \A j \in 1..n :
                          /\ cf'.interfaces[j] = reads'[Len(reads') - n + j].val
                          /\ reads'[Len(reads') - n + j].at = c.at + 2 * j
      ]_vars

\* C22 witness: decode returned the two interfaces, the two fields and the
\* two methods of the input, in its order.
C22_Witness ==
    /\ outcome = "returned"
    /\ cf.interfaces = <<3, 1>>
    /\ Len(cf.fields) = 2
    /\ cf.fields[1].access_flags = 1 /\ cf.fields[2].access_flags = 2
    /\ cf.fields[2].name_index = 1 /\ cf.fields[2].descriptor_index = 2
    /\ Len(cf.methods) = 2
    /\ cf.methods[1].descriptor_index = 1 /\ cf.methods[2].access_flags = 8
    /\ buffer.len = 0

\* decode can take a step: it is running and, at the head of a loop, either
\* branch of the loop condition is a step; decode_attributes has a caller to
\* return to.
CanStep ==
    /\ outcome = "running"
    /\ pc \in {"magic", "minor_version", "major_version", "constant_pool",
               "cp_loop", "access_flags", "this_class", "super_class",
               "interfaces", "interfaces_loop", "fields", "fields_loop",
               "methods", "methods_loop", "attributes", "attr_loop"}
    /\ pc \in TableLoops => left >= 0
    /\ pc = "attr_loop"
         => (attrs_left > 0 \/ (attrs_left = 0 /\ owner \in {"field", "method", "class"}))

\* A bound on the steps decode has yet to take: 4 for every byte not yet
\* consumed, and the steps that consume nothing before the next byte is read:
\* the return of decode_attributes, then the end of a loop, then a count.
StepsLeft ==
    IF outcome # "running" THEN 0
    ELSE 4 * buffer.len
           + (CASE pc = "attr_loop" -> 3
                [] pc \in TableLoops \cup {"cp_loop"} -> 2
                [] OTHER -> 1)

\* C23: decode ends and neither loops forever nor stops half way: while it
\* runs it can take a step, and every step makes StepsLeft, a natural number,
\* smaller, so that decode has ended after at most 4 * Len(bytes) + 1 steps,
\* with a JavaClassFile returned or by a panic or a trap.  Every loop is
\* bounded by a 16-bit count that is read before it and not changed in it:
\* an iteration of the constant pool loop that succeeds makes i larger, an
\* iteration of another loop never makes the iterations left more, and an
\* iteration of decode_attributes that succeeds makes them fewer.
C23_DecodeTerminates ==
    /\ [](outcome = "running" => CanStep)
    /\ [](outcome \in {"running", "returned", "panicked", "trapped"})
    /\ [](outcome = "returned" <=> pc = "done")
    /\ [][/\ StepsLeft' < StepsLeft
          /\ StepsLeft' >= 0
          /\ (pc' = "cp_loop") => count' \in 0..65535
          /\ (pc = "cp_loop" /\ pc' = "cp_loop")
               => /\ count' = count
                  /\ outcome' = "running" => i' > i
          /\ (pc' \in TableLoops) => left' \in 0..65535
          /\ (pc \in TableLoops \cup {"attributes", "attr_loop"}
                /\ pc' \in TableLoops \cup {"attributes", "attr_loop"}
                /\ Section' = Section)
               => left' <= left
          /\ (pc' = "attr_loop") => attrs_left' \in 0..65535
          /\ (pc = "attr_loop" /\ pc' = "attr_loop")
               => /\ attrs_left' <= attrs_left
                  /\ outcome' = "running" => attrs_left' < attrs_left
         ]_vars

\* C23 witness: decode has returned after iterations of every loop: 3 of the
\* constant pool, 2 of each table and 2 of attributes.
C23_Witness ==
    /\ outcome = "returned"
    /\ pc = "done"
    /\ i = 4 /\ count = 4
    /\ Len(cf.interfaces) = 2
    /\ Len(cf.fields) = 2
    /\ Len(cf.methods) = 2
    /\ Len(attr_log) = 2
    /\ left = 0 /\ attrs_left = 0

====
